---- MODULE Spec2Model ----
(***************************************************************************)
(* pdb-attach: the framed socket transport (PdbIOWrapper) and the          *)
(* signal-triggered listener (listen / unlisten / PdbServer).              *)
(*                                                                         *)
(* Text is a sequence of characters, the wire a sequence of bytes.  The    *)
(* stream encoding is sys.getdefaultencoding() = utf-8 with errors =       *)
(* "strict": the characters "|" and "\n" are one byte each, the            *)
(* character "U+00E9" is the two bytes C3 A9.                              *)
(***************************************************************************)
EXTENDS Integers, Sequences, FiniteSets, TLC

VARIABLES
    wire,       \* bytes the peer has sent on the connection, not yet taken by recv
    closed,     \* the peer has closed the connection: recv on an empty wire gives b""
    buffer,     \* PdbIOWrapper._buffer
    call,       \* the read operation in progress (blocked in _read), or NoCall
    ret,        \* how the last read operation ended, or NoRet while one is in progress
    last,       \* the outcome of the latest _read of the current/last read operation
    nframes,    \* history: the number of frames the peer has written
    nchars,     \* history: the number of characters of text the peer has written
    wret,       \* how the last write / raise_eoferror of this end ended
    hist,       \* history, kept in the runs that observe it: the text the peer has
                \* written and the text the read operations have returned
    handler,    \* the process's handler of SIGUSR1: signal.getsignal(signal.SIGUSR1)
    servers,    \* the PdbServer objects created so far, in order
    lret,       \* how the last listen / unlisten / signal.signal call ended
    sess        \* the debugging session: the host process stopped in its PdbServer
                \* and the client driver (main) attached to it

tvars == <<wire, closed, buffer, call, ret, last, nframes, nchars, wret, hist>>
lvars == <<handler, servers, lret, sess>>
vars == <<wire, closed, buffer, call, ret, last, nframes, nchars, wret, hist,
          handler, servers, lret, sess>>

-----------------------------------------------------------------------------
(* Bounds of the model *)

MaxFrames == 2      \* frames the peer writes in one run
MaxChars == 2       \* characters of text the peer writes in one run
MaxSize == 2        \* largest size argument of read(size) / readline(size)
MaxServers == 3     \* PdbServer objects created in one run

-----------------------------------------------------------------------------
(* Protocol codes, src/pdb_attach.py:109-112 *)

_CLOSED == -1
_TEXT == 0
_PROMPT == 1
_EOFERROR == 2

-----------------------------------------------------------------------------
(* Characters, bytes and the utf-8 codec *)

linesep == "\n"                       \* os.linesep
Chars == {"|", linesep, "U+00E9"}
Digits == <<"0", "1", "2", "3", "4", "5", "6", "7", "8", "9">>
DigitSet == {Digits[i] : i \in 1..10}
\* a byte below 0x80; C3 A9 are the two bytes of U+00E9
IsAscii(b) == b \notin {"C3", "A9"}

Min(a, b) == IF a < b THEN a ELSE b

Take(s, n) == SubSeq(s, 1, Min(n, Len(s)))
Drop(s, n) == SubSeq(s, Min(n, Len(s)) + 1, Len(s))

RECURSIVE TextsOfLen(_)
TextsOfLen(n) ==
    IF n = 0 THEN {<<>>}
    ELSE {Append(t, c) : t \in TextsOfLen(n - 1), c \in Chars}

\* every text of at most n characters
Texts(n) == UNION {TextsOfLen(k) : k \in 0..n}

\* the texts written in the model
AllTexts == Texts(MaxChars)

\* str.encode(encoding, errors) of one character
EncodeChar(c) == IF c = "U+00E9" THEN <<"C3", "A9">> ELSE <<c>>

RECURSIVE Encode(_)
Encode(s) == IF s = <<>> THEN <<>> ELSE EncodeChar(Head(s)) \o Encode(Tail(s))

\* bytes.decode(encoding, "strict") succeeds
RECURSIVE Decodable(_)
Decodable(bs) ==
    IF bs = <<>> THEN TRUE
    ELSE IF IsAscii(Head(bs)) THEN Decodable(Tail(bs))
    ELSE IF Head(bs) = "C3" /\ Len(bs) >= 2 /\ bs[2] = "A9"
         THEN Decodable(Tail(Tail(bs)))
    ELSE FALSE

\* bytes.decode(encoding, "strict") of decodable bytes
RECURSIVE Decode(_)
Decode(bs) ==
    IF bs = <<>> THEN <<>>
    ELSE IF Head(bs) = "C3" THEN <<"U+00E9">> \o Decode(Tail(Tail(bs)))
    ELSE <<Head(bs)>> \o Decode(Tail(bs))

\* "{}".format(n) of a non-negative integer
RECURSIVE Dec(_)
Dec(n) == IF n < 10 THEN <<Digits[n + 1]>> ELSE Dec(n \div 10) \o <<Digits[(n % 10) + 1]>>

DigitVal(d) == CHOOSE i \in 0..9 : Digits[i + 1] = d

\* the whitespace characters of the model
Whitespace == {linesep, " "}

\* str.strip() as int() applies it: leading and trailing whitespace removed
RECURSIVE LStrip(_)
LStrip(s) == IF s # <<>> /\ Head(s) \in Whitespace THEN LStrip(Tail(s)) ELSE s
RECURSIVE RStrip(_)
RStrip(s) ==
    IF s # <<>> /\ s[Len(s)] \in Whitespace THEN RStrip(SubSeq(s, 1, Len(s) - 1)) ELSE s
Strip(s) == RStrip(LStrip(s))

\* int(s) does not raise ValueError
IsInt(s) == Strip(s) # <<>> /\ \A i \in 1..Len(Strip(s)) : Strip(s)[i] \in DigitSet

RECURSIVE DigitsVal(_)
DigitsVal(s) ==
    IF s = <<>> THEN 0 ELSE 10 * DigitsVal(SubSeq(s, 1, Len(s) - 1)) + DigitVal(s[Len(s)])

\* int(s)
ToInt(s) == DigitsVal(Strip(s))

-----------------------------------------------------------------------------
(* PdbIOWrapper._format_msg *)

_format_msg(msg, code) == Encode(Dec(Len(msg)) \o <<"|">> \o Dec(code) \o <<"|">> \o msg)

-----------------------------------------------------------------------------
(* PdbIOWrapper._read: the outcomes of one call on the bytes w, where cl     *)
(* says whether end of stream follows them.  An outcome is                   *)
(*   kind      "ok" (returned), or the exception raised                      *)
(*   msg, code the pair returned; is_prompt, the PdbStr's tag                *)
(*   hcode     the code field of the header, NoCode when none was parsed     *)
(*   n         the bytes taken from the socket                               *)
(*   whole     the payload recv returned all the bytes it asked for          *)
(* The empty set stands for a call still blocked in recv.                    *)

NoCode == -2

Outcome(kind, msg, code, hcode, n, whole) ==
    [kind |-> kind, msg |-> msg, code |-> code, hcode |-> hcode,
     is_prompt |-> (hcode = _PROMPT /\ kind = "ok"), n |-> n, whole |-> whole]

\* the loop `while msg_data.count("|") < 2: c = recv(1) ...` from i bytes taken
\* and bars separators seen: where it ends and why
RECURSIVE HdrEnd(_, _, _)
HdrEnd(w, i, bars) ==
    IF bars = 2 THEN [n |-> i, st |-> "hdr"]
    ELSE IF i = Len(w) THEN [n |-> i, st |-> "eof"]
    ELSE IF ~IsAscii(w[i + 1]) THEN [n |-> i + 1, st |-> "uni"]
    ELSE HdrEnd(w, i + 1, bars + (IF w[i + 1] = "|" THEN 1 ELSE 0))

\* msg_data.split("|")[0] and [1]
FirstBar(md) == CHOOSE i \in 1..Len(md) : md[i] = "|" /\ \A j \in 1..(i - 1) : md[j] # "|"
Item0(md) == SubSeq(md, 1, FirstBar(md) - 1)
Item1(md) == SubSeq(md, FirstBar(md) + 1, Len(md) - 1)

\* the byte counts socket.recv(size) may return on the bytes rest
RecvCounts(size, rest, cl) ==
    IF size = 0 THEN {0}
    ELSE IF rest = <<>> THEN (IF cl THEN {0} ELSE {})
    ELSE 1..Min(size, Len(rest))

\* lines 151-153 without the downgrade of a short payload's code
Payload_nodowngrade(size, code, hn, rest, k) ==
    LET bs == SubSeq(rest, 1, k)
        whole == (k = Min(size, Len(rest)))
    IN  IF ~Decodable(bs)
        THEN Outcome("UnicodeDecodeError", <<>>, NoCode, code, hn + k, whole)
        ELSE Outcome("ok", Decode(bs), code, code, hn + k, whole)

\* lines 151-153: the payload recv returned k bytes of rest
Payload(size, code, hn, rest, k) ==
    LET bs == SubSeq(rest, 1, k)
        whole == (k = Min(size, Len(rest)))
    IN  IF ~Decodable(bs)
        THEN Outcome("UnicodeDecodeError", <<>>, NoCode, code, hn + k, whole)
        ELSE Outcome("ok", Decode(bs),
                     IF Len(Decode(bs)) = size THEN code ELSE _CLOSED,
                     code, hn + k, whole)

\* lines 148-153 with the header parsed, but for the raise of lines 148-149
AfterHeader_noraise(size, code, hn, rest, cl) ==
    {Payload(size, code, hn, rest, k) : k \in RecvCounts(size, rest, cl)}

\* lines 148-153: the header is parsed, hn bytes long, and rest follows it
AfterHeader(size, code, hn, rest, cl) ==
    IF code = _EOFERROR
    THEN {Outcome("EOFError", <<>>, NoCode, _EOFERROR, hn, TRUE)}
    ELSE {Payload(size, code, hn, rest, k) : k \in RecvCounts(size, rest, cl)}

_read(w, cl) ==
    LET h == HdrEnd(w, 0, 0)
        md == SubSeq(w, 1, h.n)
        rest == SubSeq(w, h.n + 1, Len(w))
    IN  CASE h.st = "eof" ->
               IF cl THEN {Outcome("ok", <<>>, _CLOSED, NoCode, h.n, TRUE)} ELSE {}
          [] h.st = "uni" ->
               {Outcome("UnicodeDecodeError", <<>>, NoCode, NoCode, h.n, TRUE)}
          [] h.st = "hdr" ->
               IF ~IsInt(Item0(md)) \/ ~IsInt(Item1(md))
               THEN {Outcome("ValueError", <<>>, NoCode, NoCode, h.n, TRUE)}
               ELSE AfterHeader(ToInt(Item0(md)), ToInt(Item1(md)), h.n, rest, cl)

-----------------------------------------------------------------------------
(* The read operations of PdbIOWrapper *)

\* the history: off, or on and empty; the peer has written msg; a read operation
\* has returned rv
NoHist == [on |-> FALSE, sent |-> <<>>, got |-> <<>>]
HistOn == [on |-> TRUE, sent |-> <<>>, got |-> <<>>]
Sent(msg) == IF hist.on THEN [hist EXCEPT !.sent = @ \o msg] ELSE hist
Got(rv) == IF hist.on THEN [hist EXCEPT !.got = @ \o rv] ELSE hist

NoCall == [op |-> "none", n |-> 0, size |-> 0]
NoRet == [op |-> "none", n |-> 0, rv |-> <<>>, closed |-> FALSE, exc |-> "none"]
NoLast == [kind |-> "none", msg |-> <<>>, code |-> NoCode, hcode |-> NoCode,
           is_prompt |-> FALSE, whole |-> TRUE, pre |-> <<>>, preclosed |-> FALSE]

LastOf(o) ==
    [kind |-> o.kind, msg |-> o.msg, code |-> o.code, hcode |-> o.hcode,
     is_prompt |-> o.is_prompt, whole |-> o.whole, pre |-> wire, preclosed |-> closed]

\* the operation in progress returns rv (and, for read_prompt, the flag cl)
Returned(rv, cl) ==
    [op |-> call.op, n |-> call.n, rv |-> rv, closed |-> cl, exc |-> "none"]

\* the operation in progress ends by the exception exc
Raised(exc) ==
    [op |-> call.op, n |-> call.n, rv |-> <<>>, closed |-> FALSE, exc |-> exc]

\* a read operation is entered with argument n
Enter(op, n) ==
    /\ call = NoCall
    /\ call' = [op |-> op, n |-> n, size |-> n]
    /\ ret' = NoRet
    /\ last' = NoLast
    /\ UNCHANGED <<wire, closed, buffer, nframes, nchars, wret, hist>>
    /\ UNCHANGED lvars

\* one _read call of the operation in progress ends with outcome o
Pull(o) ==
    /\ o \in _read(wire, closed)
    /\ wire' = SubSeq(wire, o.n + 1, Len(wire))
    /\ last' = LastOf(o)
    /\ UNCHANGED <<closed, nframes, nchars, wret>>
    /\ UNCHANGED lvars

\* the propagation of an exception of _read with the buffer reset on the way
Propagate_reset(o) ==
    /\ o.kind # "ok"
    /\ ret' = Raised(o.kind)
    /\ call' = NoCall
    /\ buffer' = <<>>
    /\ hist' = hist

\* the exception of _read propagates out of the operation
Propagate(o) ==
    /\ o.kind # "ok"
    /\ ret' = Raised(o.kind)
    /\ call' = NoCall
    /\ buffer' = buffer
    /\ hist' = hist

Finish(rv, rest, cl) ==
    /\ ret' = Returned(rv, cl)
    /\ call' = NoCall
    /\ buffer' = rest
    /\ hist' = Got(rv)

\* read(size), size >= 0: lines 179-186
read_call(size) == Enter("read", size)

read_step ==
    /\ call.op = "read"
    /\ IF Len(buffer) < call.size
       THEN \E o \in _read(wire, closed) :
              /\ Pull(o)
              /\ \/ Propagate(o)
                 \/ /\ o.kind = "ok"
                    /\ buffer' = buffer \o o.msg
                    /\ call' = IF o.code = _CLOSED
                               THEN [call EXCEPT !.size = Min(Len(buffer \o o.msg), call.size)]
                               ELSE call
                    /\ ret' = ret
                    /\ hist' = hist
       ELSE /\ Finish(Take(buffer, call.size), Drop(buffer, call.size), FALSE)
            /\ UNCHANGED <<wire, closed, last, nframes, nchars, wret, handler, servers, lret, sess>>

\* read(), size None or negative: lines 174-177 with _read_eof, lines 155-160
read_eof_call == Enter("read_eof", -1)

read_eof_step ==
    /\ call.op = "read_eof"
    /\ \E o \in _read(wire, closed) :
         /\ Pull(o)
         /\ \/ Propagate(o)
            \/ /\ o.kind = "ok"
               /\ IF o.code = _CLOSED
                  THEN Finish(buffer \o o.msg, <<>>, FALSE)
                  ELSE /\ buffer' = buffer \o o.msg
                       /\ UNCHANGED <<call, ret, hist>>

\* lines 211-218: the index readline cuts the buffer at
readline_idx(size, buf) ==
    LET has == \E i \in 1..Len(buf) : buf[i] = linesep
        index == CHOOSE i \in 0..Len(buf) :
                    /\ i < Len(buf) => buf[i + 1] = linesep
                    /\ \A j \in 1..i : buf[j] # linesep
    IN  IF size >= 0 /\ has THEN Min(size, index + 1)
        ELSE IF size >= 0 THEN size
        ELSE IF has THEN index + 1
        ELSE Len(buf)

readline_call(size) == Enter("readline", size)

\* lines 201-221
readline_step ==
    /\ call.op = "readline"
    /\ LET done(buf) == Finish(Take(buf, readline_idx(call.size, buf)),
                               Drop(buf, readline_idx(call.size, buf)), FALSE)
       IN  IF \/ \E i \in 1..Len(buffer) : buffer[i] = linesep
              \/ call.size >= 0 /\ Len(buffer) >= call.size
           THEN /\ done(buffer)
                /\ UNCHANGED <<wire, closed, last, nframes, nchars, wret, handler, servers, lret, sess>>
           ELSE \E o \in _read(wire, closed) :
                  /\ Pull(o)
                  /\ \/ Propagate(o)
                     \/ /\ o.kind = "ok"
                        /\ IF o.code = _CLOSED
                           THEN done(buffer \o o.msg)
                           ELSE /\ buffer' = buffer \o o.msg
                                /\ UNCHANGED <<call, ret, hist>>

\* lines 223-238
read_prompt_call == Enter("read_prompt", -1)

read_prompt_step ==
    /\ call.op = "read_prompt"
    /\ \E o \in _read(wire, closed) :
         /\ Pull(o)
         /\ \/ Propagate(o)
            \/ /\ o.kind = "ok"
               /\ IF o.code = _CLOSED \/ o.is_prompt
                  THEN Finish(buffer \o o.msg, <<>>, o.code = _CLOSED)
                  ELSE /\ buffer' = buffer \o o.msg
                       /\ UNCHANGED <<call, ret, hist>>

-----------------------------------------------------------------------------------------------------------------------------------------------------
(* write and raise_eoferror *)

NoWret == [op |-> "none", rv |-> 0, len |-> 0, failed |-> FALSE, data |-> <<>>]

\* socket.sendall may raise OSError only when the peer is gone
SendFails == IF closed THEN BOOLEAN ELSE {FALSE}

\* lines 265-268 with the prompt tag of the text ignored
write_data_text(msg, is_prompt) == _format_msg(msg, _TEXT)

\* lines 265-268: the bytes write hands to sendall
write_data(msg, is_prompt) == _format_msg(msg, IF is_prompt THEN _PROMPT ELSE _TEXT)

\* lines 269-276 with the OSError of sendall not turned into 0
write_rv_len(msg, failed) == Len(msg)

\* lines 269-276: what write returns when sendall raised OSError (failed) or not
write_rv(msg, failed) == IF failed THEN 0 ELSE Len(msg)

\* lines 247-251: what raise_eoferror returns
raise_eoferror_rv(failed) == ~failed

\* the session buffer after write / raise_eoferror: neither touches self._buffer
buffer_after_send(buf) == buf

\* this end writes msg
write(msg, is_prompt) ==
    /\ call = NoCall
    /\ \E failed \in SendFails :
         wret' = [op |-> "write", rv |-> write_rv(msg, failed), len |-> Len(msg),
                  failed |-> failed, data |-> write_data(msg, is_prompt)]
    /\ buffer' = buffer_after_send(buffer)
    /\ UNCHANGED <<wire, closed, call, ret, last, nframes, nchars, hist>>
    /\ UNCHANGED lvars

raise_eoferror ==
    /\ call = NoCall
    /\ \E failed \in SendFails :
         wret' = [op |-> "raise_eoferror", rv |-> raise_eoferror_rv(failed), len |-> 0,
                  failed |-> failed, data |-> _format_msg(<<>>, _EOFERROR)]
    /\ buffer' = buffer_after_send(buffer)
    /\ UNCHANGED <<wire, closed, call, ret, last, nframes, nchars, hist>>
    /\ UNCHANGED lvars

-----
(* The peer: the PdbIOWrapper on the other end of the connection *)

\* the peer's write(msg): its sendall puts the frame on the wire
peer_write(msg, is_prompt) ==
    /\ ~closed
    /\ nframes < MaxFrames
    /\ nchars + Len(msg) <= MaxChars
    /\ wire' = wire \o write_data(msg, is_prompt)
    /\ nframes' = nframes + 1
    /\ nchars' = nchars + Len(msg)
    /\ hist' = Sent(msg)
    /\ UNCHANGED <<closed, buffer, call, ret, last, wret>>
    /\ UNCHANGED lvars

\* the peer's raise_eoferror()
peer_raise_eoferror ==
    /\ ~closed
    /\ nframes < MaxFrames
    /\ wire' = wire \o _format_msg(<<>>, _EOFERROR)
    /\ nframes' = nframes + 1
    /\ UNCHANGED <<closed, buffer, call, ret, last, nchars, wret, hist>>
    /\ UNCHANGED lvars

\* the prompt of the debugger, line 47: PdbStr(self.prompt, prompt=True), where
\* pdb.Pdb sets self.prompt = "(Pdb) "
pdb_prompt == <<"(", "P", "d", "b", ")", " ">>

\* the server's debugger writes its prompt: self.stdout.write(self.prompt)
peer_prompt ==
    /\ ~closed
    /\ nframes < MaxFrames
    /\ wire' = wire \o write_data(pdb_prompt, TRUE)
    /\ nframes' = nframes + 1
    /\ hist' = Sent(pdb_prompt)
    /\ UNCHANGED <<closed, buffer, call, ret, last, nchars, wret>>
    /\ UNCHANGED lvars

\* the peer is lost in the middle of the sendall of its write(msg): the first m
\* bytes of the frame arrive, then end of stream
peer_write_cut(msg, is_prompt) ==
    /\ ~closed
    /\ nframes < MaxFrames
    /\ nchars + Len(msg) <= MaxChars
    /\ \E m \in 1..(Len(write_data(msg, is_prompt)) - 1) :
         wire' = wire \o SubSeq(write_data(msg, is_prompt), 1, m)
    /\ closed' = TRUE
    /\ nframes' = nframes + 1
    /\ nchars' = nchars + Len(msg)
    /\ hist' = Sent(msg)
    /\ UNCHANGED <<buffer, call, ret, last, wret>>
    /\ UNCHANGED lvars

\* the peer closes its socket (do_detach, or the client process ends)
peer_close ==
    /\ ~closed
    /\ closed' = TRUE
    /\ UNCHANGED <<wire, buffer, call, ret, last, nframes, nchars, wret, hist>>
    /\ UNCHANGED lvars

-----------------------------------------------------------------------------------------------------------------------------------------------------
(* listen / unlisten and the PdbServer objects, src/pdb_attach.py:15-63 *)

Ports == 0..2         \* port 0 asks the system for any free port

\* what signal.getsignal can return: a handler of the host program or a PdbServer
Plain(kind) == [kind |-> kind, id |-> 0]
PlainHandlers == {Plain("SIG_DFL"), Plain("SIG_IGN"), Plain("app_handler")}
ServerHandler(i) == [kind |-> "PdbServer", id |-> i]

\* isinstance(h, PdbServer)
IsPdbServer(h) == h.kind = "PdbServer"

\* some PdbServer's socket is bound to port and listening
Bound(port) == \E i \in 1..Len(servers) : servers[i].port = port /\ servers[i].listening

\* the listening sockets that are open
OpenSockets == {i \in 1..Len(servers) : servers[i].listening}

NoLret == [op |-> "none", exc |-> "none", cur |-> Plain("SIG_DFL"), open |-> {}]

Lret(op, exc) == [op |-> op, exc |-> exc, cur |-> handler, open |-> OpenSockets]

\* class PdbServer(pdb.Pdb), lines 28-63, and pdb.Pdb with its bases bdb.Bdb and
\* cmd.Cmd: the methods an instance has.  None of them is close.
PdbServerMethods == {"__init__", "__call__", "set_trace", "do_detach",
                     "clear_all_breaks", "set_continue", "cmdloop", "onecmd", "reset"}

\* PdbServer.__init__, lines 35-47: bind raises OSError on a port in use
PdbServer_init(old_handler, port) ==
    [_old_handler |-> old_handler, port |-> port, listening |-> TRUE]

\* lines 15-18 with a bind that never fails
listen_nobinderror(port) ==
    /\ Len(servers) < MaxServers
    /\ servers' = Append(servers, PdbServer_init(handler, port))
    /\ handler' = ServerHandler(Len(servers) + 1)
    /\ lret' = Lret("listen", "none")
    /\ UNCHANGED <<tvars, sess>>

\* lines 15-18
listen(port) ==
    /\ Len(servers) < MaxServers
    /\ IF port # 0 /\ Bound(port)
       THEN /\ lret' = Lret("listen", "OSError")
            /\ UNCHANGED <<handler, servers>>
       ELSE /\ servers' = Append(servers, PdbServer_init(handler, port))
            /\ handler' = ServerHandler(Len(servers) + 1)
            /\ lret' = Lret("listen", "none")
    /\ UNCHANGED <<tvars, sess>>

\* lines 21-25: cur_handler.close() is looked up on the PdbServer and raises
\* AttributeError, so line 25 is not reached
unlisten ==
    /\ IF IsPdbServer(handler)
       THEN IF "close" \in PdbServerMethods
            THEN /\ servers' = [servers EXCEPT ![handler.id].listening = FALSE]
                 /\ handler' = servers[handler.id]._old_handler
                 /\ lret' = Lret("unlisten", "none")
            ELSE /\ lret' = Lret("unlisten", "AttributeError")
                 /\ UNCHANGED <<handler, servers>>
       ELSE /\ lret' = Lret("unlisten", "none")
            /\ UNCHANGED <<handler, servers>>
    /\ UNCHANGED <<tvars, sess>>

\* the host program installs a handler of its own: signal.signal(signal.SIGUSR1, h)
host_signal(h) ==
    /\ handler' = h
    /\ lret' = Lret("signal", "none")
    /\ UNCHANGED servers
    /\ UNCHANGED <<tvars, sess>>

-----------------------------------------------------------------------------
(* A debugging session: PdbServer.__call__ / set_trace / do_detach, lines     *)
(* 49-63, on the host's side, and PdbClient and main, lines 66-89 and         *)
(* 279-301, on the client's.  The client's transport is the one of the        *)
(* variables wire .. last: wire holds the bytes from the server to the        *)
(* client, closed says that the server's end of the connection is closed.     *)
(* The debugger itself (pdb.Pdb: its command loop and its commands) is not    *)
(* part of the program: which command a line stands for is its choice.        *)
(*   spc      where the host is: "run" (running, no debugger), "accept"       *)
(*            (line 55, in accept), "cmdloop" (the debugger's loop, before    *)
(*            it writes), "readline" (in stdin.readline()), "onecmd" (a line  *)
(*            was read), "raised" (an exception has left the debugger into    *)
(*            the host's code), "dead" (the process has ended)                *)
(*   active   the PdbServer whose handler ran last                            *)
(*   nsig     the attach signals delivered                                    *)
(*   nconn    the connections accepted; they are numbered from 1              *)
(*   open     the accepted connections whose socket the host has not closed   *)
(*   stdin, stdout   the connection whose PdbIOWrapper is self.stdin, .stdout *)
(*   sbuffer  that PdbIOWrapper's _buffer                                     *)
(*   pend     the PdbServer whose listening socket queues a connection        *)
(*   cwire    the bytes from the client to the server, not yet taken by recv  *)
(*   cgone    the client's end of the connection is closed                    *)
(*   cpc      where the client is: "none" (not started), "L294" / "L297" /    *)
(*            "L299" (in the read_prompt of that line of main), "input"       *)
(*            (line 297, in input()), "eof" (in the except clause, line 299), *)
(*            "done" (the loop has ended), "crashed" (an exception left main) *)
(*   csent, ceof   the command frames and the END_OF_INPUT frames the client  *)
(*            has sent                                                        *)

MaxSessions == 2    \* attach signals in one run

NoSess == [spc |-> "run", active |-> 0, nsig |-> 0, nconn |-> 0, open |-> {},
           stdin |-> 0, stdout |-> 0, sbuffer |-> <<>>, pend |-> 0,
           cwire |-> <<>>, cgone |-> FALSE, cpc |-> "none", csent |-> 0, ceof |-> 0]

\* the lines of main at which the client is in read_prompt
Receiving == {"L294", "L297", "L299"}

\* PdbClient.connect, lines 73-78, from main, lines 292-293: the attach signal is
\* sent to the host, whose handler is a PdbServer and runs at once (__call__,
\* lines 49-51, into set_trace), and the client connects to the listening socket
connect ==
    /\ sess.cpc \in {"none", "done", "crashed"}
    /\ sess.spc = "run"
    /\ sess.nsig < MaxSessions
    /\ IsPdbServer(handler)
    /\ servers[handler.id].listening
    /\ sess' = [sess EXCEPT !.spc = "accept", !.active = handler.id, !.nsig = @ + 1,
                            !.pend = handler.id, !.cpc = "L294",
                            !.cwire = <<>>, !.cgone = FALSE]
    /\ wire' = <<>>
    /\ closed' = FALSE
    /\ buffer' = <<>>
    /\ call' = NoCall
    /\ ret' = NoRet
    /\ last' = NoLast
    /\ nframes' = 0
    /\ nchars' = 0
    /\ UNCHANGED <<wret, hist, handler, servers, lret>>

\* PdbServer.set_trace, lines 53-56: accept takes the queued connection, a new
\* PdbIOWrapper on it becomes stdin and stdout, and the debugger is entered
set_trace ==
    /\ sess.spc = "accept"
    /\ sess.pend = sess.active
    /\ sess' = [sess EXCEPT !.nconn = @ + 1, !.open = @ \cup {sess.nconn + 1},
                            !.stdin = sess.nconn + 1, !.stdout = sess.nconn + 1,
                            !.sbuffer = <<>>, !.pend = 0, !.spc = "cmdloop"]
    /\ UNCHANGED <<tvars, handler, servers, lret>>

\* the debugger prints what it has to say: self.stdout.write(msg)
cmdloop_output(msg) ==
    /\ sess.spc = "cmdloop"
    /\ peer_write(msg, FALSE)

\* the debugger writes its prompt and goes to read a line
cmdloop_prompt ==
    /\ sess.spc = "cmdloop"
    /\ wire' = wire \o write_data(pdb_prompt, TRUE)
    /\ hist' = Sent(pdb_prompt)
    /\ sess' = [sess EXCEPT !.spc = "readline"]
    /\ UNCHANGED <<closed, buffer, call, ret, last, nframes, nchars, wret>>
    /\ UNCHANGED <<handler, servers, lret>>

\* the debugger's self.stdin.readline(): lines 201-221 on the server's
\* transport, one _read at a time.  An exception of _read leaves the debugger,
\* which catches none, into the host's code; so does the line "" (end of
\* stream), on which the debugger quits
server_readline ==
    /\ sess.spc = "readline"
    /\ LET done(buf) ==
               LET idx == readline_idx(-1, buf)
               IN  [sess EXCEPT !.sbuffer = Drop(buf, idx),
                                !.spc = IF Take(buf, idx) = <<>> THEN "raised" ELSE "onecmd"]
       IN  IF \E i \in 1..Len(sess.sbuffer) : sess.sbuffer[i] = linesep
           THEN sess' = done(sess.sbuffer)
           ELSE \E o \in _read(sess.cwire, sess.cgone) :
                  LET taken == [sess EXCEPT !.cwire = Drop(sess.cwire, o.n)]
                  IN  sess' = IF o.kind # "ok" THEN [taken EXCEPT !.spc = "raised"]
                              ELSE IF o.code = _CLOSED
                              THEN [done(sess.sbuffer \o o.msg) EXCEPT !.cwire = taken.cwire]
                              ELSE [taken EXCEPT !.sbuffer = @ \o o.msg]
    /\ UNCHANGED <<tvars, handler, servers, lret>>

\* do_detach with the listening socket closed too
do_detach_all ==
    /\ sess.spc = "onecmd"
    /\ closed' = TRUE
    /\ sess' = [sess EXCEPT !.open = @ \ {sess.stdin}, !.spc = "run"]
    /\ servers' = [servers EXCEPT ![sess.active].listening = FALSE]
    /\ UNCHANGED <<wire, buffer, call, ret, last, nframes, nchars, wret, hist>>
    /\ UNCHANGED <<handler, lret>>

\* PdbServer.do_detach, lines 58-63: the line was "detach".  The breakpoints
\* are cleared, the program continues, and the socket of stdin is closed
do_detach ==
    /\ sess.spc = "onecmd"
    /\ closed' = TRUE
    /\ sess' = [sess EXCEPT !.open = @ \ {sess.stdin}, !.spc = "run"]
    /\ UNCHANGED <<wire, buffer, call, ret, last, nframes, nchars, wret, hist>>
    /\ UNCHANGED <<handler, servers, lret>>

\* the line was a command of pdb.Pdb after which its loop goes on
onecmd_other ==
    /\ sess.spc = "onecmd"
    /\ sess' = [sess EXCEPT !.spc = "cmdloop"]
    /\ UNCHANGED <<tvars, handler, servers, lret>>

\* the line was a command of pdb.Pdb that resumes the program ("continue"):
\* the loop ends and nothing of this program runs, so the connection stays
onecmd_resume ==
    /\ sess.spc = "onecmd"
    /\ sess' = [sess EXCEPT !.spc = "run"]
    /\ UNCHANGED <<tvars, handler, servers, lret>>

\* the exception that left the debugger ends the host: its sockets close
host_dies ==
    /\ sess.spc = "raised"
    /\ closed' = TRUE
    /\ sess' = [sess EXCEPT !.open = {}, !.pend = 0, !.spc = "dead"]
    /\ servers' = [i \in DOMAIN servers |-> [servers[i] EXCEPT !.listening = FALSE]]
    /\ UNCHANGED <<wire, buffer, call, ret, last, nframes, nchars, wret, hist>>
    /\ UNCHANGED <<handler, lret>>

\* the host's code catches the exception and runs on; no line of this program
\* closes the connection on that path
host_survives ==
    /\ sess.spc = "raised"
    /\ sess' = [sess EXCEPT !.spc = "run"]
    /\ UNCHANGED <<tvars, handler, servers, lret>>

\* what input() returns at line 297: one line of the user, without its newline
Commands == {t \in Texts(1) : \A i \in 1..Len(t) : t[i] # linesep}

\* send_and_recv, lines 86-87
with_linesep(cmd) ==
    IF cmd # <<>> /\ cmd[Len(cmd)] = linesep THEN cmd ELSE cmd \o <<linesep>>

\* main, lines 294, 297 and 299: the client calls read_prompt
main_read_prompt ==
    /\ sess.cpc \in Receiving
    /\ ret = NoRet
    /\ read_prompt_call

\* main_loop with a loop that does not look at closed
main_loop_forever ==
    /\ sess.cpc \in Receiving
    /\ call = NoCall
    /\ ret.op = "read_prompt"
    /\ LET to == IF ret.exc = "none" THEN "input"
                 ELSE IF ret.exc = "EOFError" /\ sess.cpc = "L297" THEN "eof"
                 ELSE "crashed"
       IN  sess' = [sess EXCEPT !.cpc = to, !.cgone = to \in {"done", "crashed"}]
    /\ ret' = NoRet
    /\ UNCHANGED <<wire, closed, buffer, call, last, nframes, nchars, wret, hist>>
    /\ UNCHANGED <<handler, servers, lret>>

\* main, lines 294-301: what the client does with the result of read_prompt.
\* The loop goes on while closed is False; only line 297 is inside the try, and
\* only EOFError is caught
main_loop ==
    /\ sess.cpc \in Receiving
    /\ call = NoCall
    /\ ret.op = "read_prompt"
    /\ LET to == IF ret.exc = "none" THEN (IF ret.closed THEN "done" ELSE "input")
                 ELSE IF ret.exc = "EOFError" /\ sess.cpc = "L297" THEN "eof"
                 ELSE "crashed"
       IN  sess' = [sess EXCEPT !.cpc = to, !.cgone = to \in {"done", "crashed"}]
    /\ ret' = NoRet
    /\ UNCHANGED <<wire, closed, buffer, call, last, nframes, nchars, wret, hist>>
    /\ UNCHANGED <<handler, servers, lret>>

\* main, line 297, and send_and_recv, lines 85-89: the user's line is written
\* as one frame (write, lines 253-276, whose result send_and_recv drops) and the
\* client goes to read_prompt.  What is sent to a connection the server has closed
\* arrives nowhere
main_input(cmd) ==
    /\ sess.cpc = "input"
    /\ sess.csent < MaxFrames
    /\ \E failed \in SendFails :
         sess' = [sess EXCEPT !.cpc = "L297", !.csent = @ + 1,
                              !.cwire = IF failed \/ closed THEN @
                                        ELSE @ \o write_data(with_linesep(cmd), FALSE)]
    /\ UNCHANGED <<tvars, handler, servers, lret>>

\* main, lines 297-298: input() meets the end of the user's input
main_input_eof ==
    /\ sess.cpc = "input"
    /\ sess' = [sess EXCEPT !.cpc = "eof"]
    /\ UNCHANGED <<tvars, handler, servers, lret>>

\* main, line 299, and PdbClient.raise_eoferror, lines 80-83: the END_OF_INPUT
\* frame is sent (lines 240-251); if the send fails the result is ("", True),
\* else the client goes to read_prompt
main_raise_eoferror ==
    /\ sess.cpc = "eof"
    /\ sess.ceof < MaxFrames
    /\ \E failed \in SendFails :
         sess' = IF raise_eoferror_rv(failed)
                 THEN [sess EXCEPT !.cpc = "L299", !.ceof = @ + 1,
                                   !.cwire = IF closed THEN @
                                             ELSE @ \o _format_msg(<<>>, _EOFERROR)]
                 ELSE [sess EXCEPT !.cpc = "done", !.cgone = TRUE]
    /\ UNCHANGED <<tvars, handler, servers, lret>>

-----------------------------------------------------------------------------

Init ==
    /\ wire = <<>>
    /\ closed = FALSE
    /\ buffer = <<>>
    /\ call = NoCall
    /\ ret = NoRet
    /\ last = NoLast
    /\ nframes = 0
    /\ nchars = 0
    /\ wret = NoWret
    /\ hist = NoHist
    /\ handler = Plain("SIG_DFL")
    /\ servers = <<>>
    /\ lret = NoLret
    /\ sess = NoSess

\* the receiving end of a connection, with the peer writing to it
Next ==
    \/ \E size \in 0..MaxSize : read_call(size)
    \/ read_step
    \/ read_eof_call
    \/ read_eof_step
    \/ \E size \in -1..MaxSize : readline_call(size)
    \/ readline_step
    \/ read_prompt_call
    \/ read_prompt_step
    \/ \E msg \in AllTexts, is_prompt \in BOOLEAN : peer_write(msg, is_prompt)
    \/ \E msg \in AllTexts, is_prompt \in BOOLEAN : peer_write_cut(msg, is_prompt)
    \/ peer_raise_eoferror
    \/ peer_close

Spec == Init /\ [][Next]_vars

\* the same, with the history kept
InitFifo ==
    /\ wire = <<>>
    /\ closed = FALSE
    /\ buffer = <<>>
    /\ call = NoCall
    /\ ret = NoRet
    /\ last = NoLast
    /\ nframes = 0
    /\ nchars = 0
    /\ wret = NoWret
    /\ hist = HistOn
    /\ handler = Plain("SIG_DFL")
    /\ servers = <<>>
    /\ lret = NoLret
    /\ sess = NoSess

SpecFifo == InitFifo /\ [][Next]_vars

\* the sending end: a transport whose buffer holds any text left by earlier
\* reads, on a connection whose peer may be gone
InitSend ==
    /\ wire = <<>>
    /\ closed = FALSE
    /\ buffer \in AllTexts
    /\ call = NoCall
    /\ ret = NoRet
    /\ last = NoLast
    /\ nframes = 0
    /\ nchars = 0
    /\ wret = NoWret
    /\ hist = NoHist
    /\ handler = Plain("SIG_DFL")
    /\ servers = <<>>
    /\ lret = NoLret
    /\ sess = NoSess

NextSend ==
    \/ \E msg \in AllTexts, is_prompt \in BOOLEAN : write(msg, is_prompt)
    \/ raise_eoferror
    \/ peer_close

SpecSend == InitSend /\ [][NextSend]_vars

\* the bytes "5|1|(Pdb) "
ScenarioBytes == <<"5", "|", "1", "|", "(", "P", "d", "b", ")", " ">>

\* the client end of a session whose server writes the debugger's prompt; the
\* socket holds nothing yet, or the ten bytes "5|1|(Pdb) "
InitPrompt ==
    /\ wire \in {<<>>, ScenarioBytes}
    /\ closed = FALSE
    /\ buffer = <<>>
    /\ call = NoCall
    /\ ret = NoRet
    /\ last = NoLast
    /\ nframes = 0
    /\ nchars = 0
    /\ wret = NoWret
    /\ hist = NoHist
    /\ handler = Plain("SIG_DFL")
    /\ servers = <<>>
    /\ lret = NoLret
    /\ sess = NoSess

NextPrompt ==
    \/ read_prompt_call
    \/ read_prompt_step
    \/ peer_prompt
    \/ peer_close

SpecPrompt == InitPrompt /\ [][NextPrompt]_vars

\* the process that calls listen and unlisten
NextListen ==
    \/ \E port \in Ports : listen(port)
    \/ unlisten
    \/ \E h \in PlainHandlers : host_signal(h)

SpecListen == Init /\ [][NextListen]_vars

\* a host that installs its listener, is attached to by the client driver and
\* detached, and removes its listener.  The host calls listen and unlisten from
\* its own code, which does not run while the debugger has the process stopped
NextSession ==
    \/ sess.spc = "run" /\ ~IsPdbServer(handler) /\ listen(1)
    \/ sess.spc = "run" /\ unlisten
    \/ connect
    \/ set_trace
    \/ \E msg \in Texts(1) : cmdloop_output(msg)
    \/ cmdloop_prompt
    \/ server_readline
    \/ do_detach
    \/ onecmd_other
    \/ onecmd_resume
    \/ host_dies
    \/ host_survives
    \/ main_read_prompt
    \/ read_prompt_step
    \/ main_loop
    \/ \E cmd \in Commands : main_input(cmd)
    \/ main_input_eof
    \/ main_raise_eoferror

SpecSession == Init /\ [][NextSession]_vars

\* read_prompt_step can be taken: the recv the client's read_prompt waits in has
\* bytes to take, or the end of the stream to see
ReadReady == call.op = "read_prompt" /\ _read(wire, closed) # {}

\* server_readline can be taken: a line is buffered, or the server's recv has
\* bytes to take or the end of the stream to see
ReadlineReady ==
    /\ sess.spc = "readline"
    /\ \/ \E i \in 1..Len(sess.sbuffer) : sess.sbuffer[i] = linesep
       \/ _read(sess.cwire, sess.cgone) # {}

\* Neither process stops by itself in the middle of its code: a step of the
\* client's main loop that can be taken is taken, and so is a step of the host
\* inside its signal handler.  What the user types, when the client is started
\* and what the host's own code does are not forced.  The last two conjuncts are
\* the weak fairness of read_prompt_step and of server_readline, written with
\* the condition under which the step can be taken
Progress ==
    /\ WF_vars(main_read_prompt \/ main_loop \/ main_raise_eoferror)
    /\ WF_vars(set_trace \/ cmdloop_prompt \/ do_detach \/ onecmd_other
                 \/ onecmd_resume \/ host_dies \/ host_survives)
    /\ ([]<>(~ReadReady) \/ []<><<read_prompt_step>>_vars)
    /\ ([]<>(~ReadlineReady) \/ []<><<server_readline>>_vars)

SpecSessionLive == SpecSession /\ Progress

-----------------------------------------------------------------------------
(* Properties *)

IsPrefix(a, b) == Len(a) <= Len(b) /\ SubSeq(b, 1, Len(a)) = a
IsSuffix(a, b) == Len(a) <= Len(b) /\ SubSeq(b, Len(b) - Len(a) + 1, Len(b)) = a

TextCodes == {_TEXT, _PROMPT}

\* a _read has ended in the current (or the last) read operation
Pulled == last.kind # "none"

\* the bytes that _read found on the socket begin with the whole frame of text t
\* under code c
FrameRead(t, c) == Pulled /\ IsPrefix(_format_msg(t, c), last.pre)

\* what the latest _read would have returned had every recv returned all the
\* bytes it asked for
WholeDelivery == CHOOSE o \in _read(last.pre, last.preclosed) : o.whole

\* the header the latest _read parsed: its length, and the payload bytes that
\* were behind it on the socket
LastHdr == HdrEnd(last.pre, 0, 0)
LastSize == ToInt(Item0(SubSeq(last.pre, 1, LastHdr.n)))
LastRest == SubSeq(last.pre, LastHdr.n + 1, Len(last.pre))

\* the read operation that ended last returned (did not raise)
Returned_(op) == ret.op = op /\ ret.exc = "none"

\* C1: a TEXT or PROMPT frame read while the connection is open gives the same
\* text and the same code whether its bytes come in one delivery or in pieces
C1_Reassembly ==
    \A t \in AllTexts, c \in TextCodes :
        (FrameRead(t, c) /\ ~last.preclosed) =>
            /\ last.kind = WholeDelivery.kind
            /\ last.msg = WholeDelivery.msg
            /\ last.code = WholeDelivery.code

\* C2: the frame that write makes of text t and tag p, delivered whole, is
\* decoded by _read to the text t with the tag p, under code PROMPT when p and
\* TEXT otherwise
C2_RoundTrip ==
    \A t \in AllTexts, p \in BOOLEAN :
        (Pulled /\ last.whole /\ IsPrefix(write_data(t, p), last.pre)) =>
            /\ last.kind = "ok"
            /\ last.msg = t
            /\ last.is_prompt = p
            /\ last.code = (IF p THEN _PROMPT ELSE _TEXT)

\* the connection closed after a TEXT or PROMPT header, with fewer payload bytes
\* behind it than the header's length
ShortPayload ==
    /\ Pulled
    /\ last.hcode \in TextCodes
    /\ last.preclosed
    /\ Len(LastRest) < LastSize

C4_EndOfInput ==
    [][(last' # last /\ last'.hcode = _EOFERROR) =>
          /\ last'.kind = "EOFError"
          /\ call.op \in {"read", "read_eof", "readline", "read_prompt"}
          /\ call' = NoCall
          /\ ret'.op = call.op
          /\ ret'.exc = "EOFError"
          /\ ret'.rv = <<>>
          /\ buffer' = buffer]_vars

\* readline has pulled text into the buffer and then met END_OF_INPUT
C4_Witness ==
    /\ last.hcode = _EOFERROR
    /\ ret.op = "readline"
    /\ ret.exc = "EOFError"
    /\ buffer # <<>>

\* C5: read_prompt returns on the first PROMPT frame, with closed = False, and
\* leaves the bytes queued behind that frame on the socket; a TEXT frame does not
\* end the loop
C5_PromptTermination ==
    \A t \in AllTexts :
        /\ FrameRead(t, _PROMPT) /\ Returned_("read_prompt") =>
              /\ ~ret.closed
              /\ IsSuffix(t, ret.rv)
              /\ IsPrefix(SubSeq(last.pre, Len(_format_msg(t, _PROMPT)) + 1, Len(last.pre)),
                          wire)
        /\ FrameRead(t, _TEXT) => ~Returned_("read_prompt")

\* C6: after listen the handler of the attach signal is the PdbServer that
\* listen made; after the unlisten that follows, it is the handler that was
\* installed before that listen, the server's _old_handler
C6_HandlerRestored ==
    /\ (lret.op = "listen" /\ lret.exc = "none") =>
          /\ IsPdbServer(handler)
          /\ handler.id = Len(servers)
          /\ servers[handler.id]._old_handler = lret.cur
    /\ (lret.op = "unlisten" /\ IsPdbServer(lret.cur)) =>
          /\ handler = servers[lret.cur.id]._old_handler
          /\ ~IsPdbServer(servers[lret.cur.id]._old_handler) => ~IsPdbServer(handler)

\* C7: unlisten raises nothing; when the handler is not a PdbServer it changes
\* neither the handler nor a socket; when it is one, unlisten restores the
\* handler captured by listen and closes the listening socket, so that a second
\* unlisten finds a handler that is not that server
C7_IdempotentTeardown ==
    lret.op = "unlisten" =>
        /\ lret.exc = "none"
        /\ ~IsPdbServer(lret.cur) => (handler = lret.cur /\ OpenSockets = lret.open)
        /\ IsPdbServer(lret.cur) =>
              /\ handler # lret.cur
              /\ OpenSockets = lret.open \ {lret.cur.id}

\* C8: read(n) returns n characters, and fewer only when the connection has
\* closed, and then the whole buffer
C8_ReadExact ==
    Returned_("read") =>
        /\ Len(ret.rv) <= ret.n
        /\ Len(ret.rv) < ret.n => (closed /\ buffer = <<>>)

\* the position of the first line terminator of text b, 0 when it has none
FirstSep(b) ==
    IF \A i \in 1..Len(b) : b[i] # linesep THEN 0
    ELSE CHOOSE i \in 1..Len(b) : b[i] = linesep /\ \A j \in 1..(i - 1) : b[j] # linesep

\* the buffer when readline left its loop, and that buffer before the last
\* message pulled
LineBuf == ret.rv \o buffer
LineBufBefore == SubSeq(LineBuf, 1, Len(LineBuf) - Len(last.msg))

\* C9: readline(limit) leaves its loop when the buffer holds a line terminator,
\* when the connection has closed, or when limit >= 0 characters are buffered,
\* and on nothing else, and pulls no frame once one of these holds; it returns the
\* buffer up to and including the first terminator when that lies within the
\* limit, else the first limit characters, else (no limit) the whole buffer;
\* never more than limit characters; the rest stays in the buffer
C9_Readline ==
    /\ Returned_("readline") =>
          LET b == LineBuf
              limit == ret.n
              sep == FirstSep(b)
          IN  /\ \/ sep > 0
                 \/ limit >= 0 /\ Len(b) >= limit
                 \/ Pulled /\ last.code = _CLOSED /\ last.preclosed
              /\ Pulled =>
                    /\ FirstSep(LineBufBefore) = 0
                    /\ ~(limit >= 0 /\ Len(LineBufBefore) >= limit)
                    /\ IsSuffix(last.msg, b)
              /\ ret.rv = IF sep > 0 /\ (limit < 0 \/ sep <= limit) THEN SubSeq(b, 1, sep)
                          ELSE IF limit >= 0 THEN SubSeq(b, 1, Min(limit, Len(b)))
                          ELSE b
              /\ limit >= 0 => Len(ret.rv) <= limit
              /\ ~ret.closed
    /\ (call.op = "readline" /\ Pulled) =>
          /\ last.kind = "ok"
          /\ last.code # _CLOSED
          /\ FirstSep(SubSeq(buffer, 1, Len(buffer) - Len(last.msg))) = 0

StepOf(op) == call.op = op /\ (Len(wire') < Len(wire) \/ call' # call)

\* the latest _read met the end of the stream: in the header, or with fewer
\* payload bytes on the socket than the header's length
EndOfStream ==
    /\ last.preclosed
    /\ \/ last.hcode = NoCode /\ last.kind = "ok"
       \/ last.hcode \in TextCodes /\ Len(LastRest) < LastSize

\* the latest _read took a whole PROMPT frame: a header with code PROMPT and a
\* payload of the header's length
CompletePrompt ==
    /\ last.hcode = _PROMPT
    /\ last.kind = "ok"
    /\ Len(Encode(last.msg)) = LastSize

\* C11: every step of read_prompt appends the text it pulled to the buffer, and
\* its return hands over the whole buffer and leaves it empty; the boolean is
\* True exactly when the loop ended on the end of the stream and False exactly
\* when it ended on a complete PROMPT frame; the end of the stream never makes
\* read_prompt raise
C11_ReadPromptResult ==
    /\ [](Returned_("read_prompt") =>
             /\ buffer = <<>>
             /\ ret.closed <=> EndOfStream
             /\ ~ret.closed <=> CompletePrompt)
    /\ []((ret.op = "read_prompt" /\ ret.exc # "none" /\ last.preclosed /\ wire = <<>>) =>
             last.hcode = _EOFERROR)
    /\ [][StepOf("read_prompt") =>
             ret'.rv \o buffer' = buffer \o last'.msg]_vars

\* the frame that write makes of the debugger's prompt
PromptFrame == write_data(pdb_prompt, TRUE)

C15_BindFailure ==
    [][lret'.op = "listen" =>
          /\ lret'.exc \in {"none", "OSError"}
          /\ lret'.exc = "OSError" => (handler' = handler /\ servers' = servers)
          /\ servers' # servers =>
                LET port == servers'[Len(servers')].port
                IN  /\ Len(servers') = Len(servers) + 1
                    /\ port = 0 \/ ~Bound(port)]_vars

\* a listen on the port of the installed listener has failed
C15_Witness ==
    /\ lret.op = "listen"
    /\ lret.exc = "OSError"
    /\ IsPdbServer(handler)
    /\ IsPdbServer(lret.cur)
    /\ handler = lret.cur
    /\ Bound(servers[handler.id].port)

\* C19: at most one PdbServer of the process has an open listening socket
C19_OneListener == Cardinality(OpenSockets) <= 1

\* the frame that raise_eoferror sends
EofFrame == _format_msg(<<>>, _EOFERROR)

\* C20: a read operation that meets the END_OF_INPUT frame takes that frame's
\* bytes and no more from the socket and raises with the session buffer as it
\* was, text pulled earlier in the call included; the next call starts from that
\* buffer; and every step of a read operation appends what it pulls at the tail
\* of the buffer and returns text from its head only, so the text kept over the
\* raise is the first the next call returns
C20_RaiseKeepsText ==
    [][/\ (call.op # "none" /\ last' # last /\ IsPrefix(EofFrame, wire)) =>
             /\ ret'.exc = "EOFError"
             /\ ret'.op = call.op
             /\ buffer' = buffer
             /\ wire' = Drop(wire, Len(EofFrame))
       /\ (ret.exc = "EOFError" /\ call = NoCall /\ call' # NoCall) =>
             /\ buffer' = buffer
             /\ wire' = wire
       /\ (call.op # "none" /\ (last' # last \/ call' # call) /\ ret'.exc \in {"none", "EOFError"}) =>
             ret'.rv \o buffer' = buffer \o (IF last' # last THEN last'.msg ELSE <<>>)]_vars

\* read_prompt has pulled a whole TEXT frame into the buffer and then raised
\* EOFError on the END_OF_INPUT frame behind it
C20_Witness ==
    /\ ret.op = "read_prompt"
    /\ ret.exc = "EOFError"
    /\ last.hcode = _EOFERROR
    /\ IsPrefix(EofFrame, last.pre)
    /\ buffer # <<>>

\* C16: the text the read operations have returned, followed by the session
\* buffer, is a prefix of the text the peer has written, in the order written
C16_Fifo == hist.on => IsPrefix(hist.got \o buffer, hist.sent)

\* the step in which the host accepts the queued connection
AcceptStep == sess.spc = "accept" /\ sess'.spc # "accept"

\* the step in which a command of the debugger closes the connection: detach
DetachStep == sess.spc = "onecmd" /\ ~closed /\ closed'

\* C13: every attach signal delivered to a listening PdbServer accepts one
\* connection; the accepting step installs a new transport with an empty
\* buffer, on a connection that was not open before, as stdin and as stdout and
\* then enters the debugger; the detach step closes that connection and nothing
\* else, leaving the listening socket open and the handler installed, so that
\* the next attach signal finds a listening PdbServer again
C13_SessionCycle ==
    /\ [](sess.nconn = sess.nsig - (IF sess.spc = "accept" THEN 1 ELSE 0))
    /\ [](sess.spc = "accept" => (IsPdbServer(handler) /\ Bound(servers[handler.id].port)))
    /\ [][AcceptStep =>
            /\ sess'.nconn = sess.nconn + 1
            /\ sess'.stdin = sess'.nconn /\ sess'.stdout = sess'.nconn
            /\ sess'.stdin \notin sess.open /\ sess'.open = sess.open \cup {sess'.stdin}
            /\ sess'.sbuffer = <<>>
            /\ sess'.spc = "cmdloop"
            /\ handler' = handler /\ servers' = servers]_vars
    /\ [][DetachStep =>
            /\ sess.stdin = sess.nconn /\ sess.stdin \in sess.open
            /\ sess'.open = sess.open \ {sess.stdin}
            /\ handler' = handler /\ servers' = servers
            /\ IsPdbServer(handler') /\ handler'.id = sess.active
            /\ servers'[handler'.id].listening
            /\ sess'.spc = "run"]_vars

\* C13's case: a second session, on a second connection, after the first one
\* was detached
C13_Witness ==
    /\ sess.nsig = 2 /\ sess.nconn = 2
    /\ sess.stdin = 2 /\ sess.stdout = 2
    /\ sess.open = {2}
    /\ sess.spc = "readline"
    /\ ~closed

\* C14: when unlisten has run on a PdbServer, that server's listening socket
\* and every connection the host has accepted are closed
C14_SocketsClosed ==
    [][(lret'.op = "unlisten" /\ IsPdbServer(lret'.cur) /\ sess' = sess) =>
          /\ ~servers'[lret'.cur.id].listening
          /\ sess'.open = {}]_vars

\* the server's detach has closed the connection while the client is in, or
\* about to call, read_prompt
DetachedPending == closed /\ sess.spc # "dead" /\ sess.cpc \in Receiving

\* C17: the client's loop goes on to input() when read_prompt returns closed
\* False and ends when it returns closed True; it ends too when the sending of
\* END_OF_INPUT fails; an ended client sends nothing; and once detach has closed
\* the connection the pending read_prompt returns closed True, the client ends
\* and it has sent no frame in between
C17_ClientTermination ==
    /\ [][(sess.cpc \in Receiving /\ ret.op = "read_prompt" /\ ret.exc = "none" /\ ret' = NoRet) =>
            sess'.cpc = (IF ret.closed THEN "done" ELSE "input")]_vars
    /\ [][(sess.cpc = "eof" /\ sess'.cpc # "eof") =>
            /\ sess'.cpc \in {"done", "L299"}
            /\ sess'.cpc = "done" => (closed /\ sess'.ceof = sess.ceof /\ sess'.cwire = sess.cwire)
            /\ ~closed => sess'.cpc = "L299"]_vars
    /\ [][(sess.cpc = "done" /\ sess'.nsig = sess.nsig) =>
            (sess'.cpc = "done" /\ sess'.csent = sess.csent /\ sess'.ceof = sess.ceof)]_vars
    /\ [][(DetachedPending /\ sess'.nsig = sess.nsig) =>
            (sess'.csent = sess.csent /\ sess'.ceof = sess.ceof)]_vars
    /\ (DetachedPending ~> sess.cpc = "done")

\* C17's case: the client has ended on the closed == True that read_prompt
\* returned after the server's detach closed the only connection
C17_Witness ==
    /\ sess.cpc = "done"
    /\ closed /\ sess.spc = "run"
    /\ sess.nconn = 1 /\ sess.open = {}
    /\ sess.csent = 1 /\ sess.ceof = 0
    /\ last.code = _CLOSED

\* C18: the client sends one END_OF_INPUT frame and goes to read_prompt; the
\* server's readline that takes the frame raises; and the client's read_prompt
\* of line 299 returns
C18_EndOfInputDrain ==
    /\ [][(sess.cpc = "eof" /\ sess'.cpc = "L299") =>
            (sess'.ceof = sess.ceof + 1 /\ sess'.csent = sess.csent
             /\ (~closed => sess'.cwire = sess.cwire \o EofFrame))]_vars
    /\ (sess.cpc = "L299" ~> sess.cpc \in {"done", "input"})

====
